---- MODULE Spec2Model ----
(***************************************************************************)
(* State-machine model of the iris_anchor program                          *)
(* (src/anchor/programs/anchor/src/lib.rs): subscription ledger, risk      *)
(* score ingestion, coverage issue, and the claim / voting state machine.  *)
(* Every instruction handler is an operator that computes, from the        *)
(* accounts it is handed and its arguments, the error code it returns and  *)
(* the accounts as they stand in memory when it returns; the action that   *)
(* applies it writes the accounts back only when the handler returned Ok.  *)
(***************************************************************************)
EXTENDS Integers, Sequences, FiniteSets, TLC

VARIABLES
    now,            \* Clock::get()?.unix_timestamp
    governance,     \* the Governance account handed to vote_on_claim
    user_account,   \* the UserAccount record (exists = FALSE before init)
    insurance_nfts, \* sequence of InsuranceNFT records, in creation order
    action_logs,    \* sequence of ActionLog records, in creation order
    claims,         \* sequence of Claim records, in creation order
    payouts,        \* per claim: number of process_payout invocations
    breaches,       \* number of RiskThresholdBreached events emitted so far
    bal             \* token ledger of the coverage mint: account -> amount

vars == <<now, governance, user_account, insurance_nfts, action_logs,
          claims, payouts, breaches, bal>>

----------------------------------------------------------------------------
(* Bounds of the exploration *)

\* MaxSize bounds the ticks, records, scores and votes of a behaviour of
\* Spec taken together and MaxQuorum the quorum it is provisioned with;
\* MaxHistory bounds the scores ingested under SpecHistory and
\* MaxVotingQuorum the quorum under SpecVoting.
MaxSize == 5
MaxTime == 1
MaxQuorum == 1
MaxVotingQuorum == 2
MaxHistory == 11

\* UserAccount::LEN reserves room for this many scores.
HistoryCapacity == 10

(* A u64 or i64 value is its 64 bits, kept as four 16-bit limbs, least      *)
(* significant first, so that the whole range of both types can be handed  *)
(* to an instruction and stored in an account.  Bits64(n) is the two's     *)
(* complement of the integer n: the u64 n for n >= 0, the i64 n for any n. *)
Bits64(n) ==
    <<n % 65536,
      (n \div 65536) % 65536,
      ((n \div 65536) \div 65536) % 65536,
      (((n \div 65536) \div 65536) \div 65536) % 65536>>
U64(n) == Bits64(n)
I64(n) == Bits64(n)
U64Max == <<65535, 65535, 65535, 65535>>
I64Max == <<65535, 65535, 65535, 32767>>
I64Min == <<0, 0, 0, 32768>>

\* The build's overflow-checks setting: the program's manifest is not part
\* of the source, so an i64 addition that overflows either panics or wraps.
OverflowChecks == BOOLEAN

(* Input domains *)

Users == {"u1"}
Signers == {"u1", "u2"}
Voters == {"gov", "u1"}
Authority == "gov"
MintAuthority == "iris"
MintSigners == {"iris", "u2"}
Thresholds == {50}
EmptyWatchlist == <<>>
FullWatchlist == [i \in 1..10 |-> "t1"]
Preferences == [risk_threshold : Thresholds, watchlist : {EmptyWatchlist}]
HistoryPreferences ==
    [risk_threshold : Thresholds, watchlist : {EmptyWatchlist, FullWatchlist}]
Scores == {49, 50}
Timestamps == {0}
PlanIds == {0, 1, 2}
Payments == {9999999, 10000000, 25000000}
PayerFunds == {0, 25000000}
SubDurations == {U64(1), U64(2)}
NftDurations == {U64(1)}
\* Durations handed to subscribe from the whole u64 range: 2^63 - 1
\* (i64::MAX), 2^63, 2^64 - 2 and 2^64 - 1 next to the ordinary ones.
WideDurations ==
    SubDurations \cup {I64Max, I64Min, <<65534, 65535, 65535, 65535>>, U64Max}
Tiers == {1}
PayoutCaps == {100}
ClaimAmounts == {100, 101}
\* A proof is modelled by its length in bytes.
Proofs == {32, 1025}
Tokens == {"t1"}
Amounts == {1}
ActionTypes == {"Swap", "Freeze", "Alert", "Claim"}

(* Token accounts of the coverage mint and their owners *)
TokenAccounts == {"nft_u1", "nft_u2", "escrow"}
NftAccounts == {"nft_u1", "nft_u2"}
EscrowAccounts == {"escrow"}
TokenOwner == [a \in TokenAccounts |->
                 CASE a = "nft_u1" -> "u1"
                   [] a = "nft_u2" -> "u2"
                   [] OTHER -> "program"]

----------------------------------------------------------------------------
(* Framework behaviour shared by every instruction *)

\* An instruction that returns Err is rolled back: accounts are written
\* back (and events kept) only when the handler returns Ok(()).
CommitAlways(err, old, new) == new
Commit(err, old, new) == IF err = "Ok" THEN new ELSE old

\* `x as i64` for a u64 x: the same 64 bits, read as two's complement (bit
\* 63 becomes the sign), so a word with bit 63 set is a negative number.
u64_as_i64(x) == [i \in 1..4 |-> x[i]]

\* a < 0 for an i64 a.
is_negative(a) == a[4] >= 32768

\* a < b for two i64.
i64_lt(a, b) ==
    IF is_negative(a) # is_negative(b)
    THEN is_negative(a)
    ELSE \E i \in 1..4 : a[i] < b[i] /\ \A j \in (i + 1)..4 : a[j] = b[j]

\* The 64-bit sum of two words, carry out of bit 63 dropped.
wrapping_add(a, b) ==
    LET s1 == a[1] + b[1]
        s2 == a[2] + b[2] + (s1 \div 65536)
        s3 == a[3] + b[3] + (s2 \div 65536)
        s4 == a[4] + b[4] + (s3 \div 65536)
    IN <<s1 % 65536, s2 % 65536, s3 % 65536, s4 % 65536>>

\* a + b for two i64: when the sum does not fit, a panic with overflow
\* checks on and the wrapped sum with overflow checks off.
i64_add(a, b, overflow_checks) ==
    LET sum == wrapping_add(a, b)
        overflows == /\ is_negative(a) = is_negative(b)
                     /\ is_negative(sum) # is_negative(a)
    IN IF overflows /\ overflow_checks
       THEN [err |-> "Panic", value |-> a]
       ELSE [err |-> "Ok", value |-> sum]

\* anchor_spl::token::transfer of `amount` from `from` to `to`, signed by
\* `authority`, on the ledger `ledger`.
token_transfer(ledger, from, to, authority, amount) ==
    IF TokenOwner[from] # authority \/ ledger[from] < amount
    THEN [err |-> "TokenError", ledger |-> ledger]
    ELSE [err |-> "Ok",
          ledger |-> [a \in TokenAccounts |->
                        (IF a = to THEN amount ELSE 0)
                        + (IF a = from THEN ledger[a] - amount ELSE ledger[a])]]

\* anchor_spl::token::mint_to of `amount` to `to`, authorised by `authority`.
token_mint_to(ledger, to, authority, amount) ==
    IF authority # MintAuthority
    THEN [err |-> "TokenError", ledger |-> ledger]
    ELSE [err |-> "Ok", ledger |-> [ledger EXCEPT ![to] = @ + amount]]

\* The space reserved for a UserAccount and the bytes its serialisation
\* takes.  Score::LEN is used by the source but defined nowhere in it: it is
\* taken to be the serialised size of a Score (a u8 and an i64).
Score_LEN == 1 + 8
RiskParams_LEN == 1 + (4 + 32 * 10) + 1 + 1
UserAccount_LEN == 32 + RiskParams_LEN + 1 + 8 + (4 + Score_LEN * HistoryCapacity)
user_account_size(ua) ==
    8 + 32 + (1 + (4 + 32 * Len(ua.preferences.watchlist)) + 1 + 1) + 1 + 8
    + (4 + Score_LEN * Len(ua.score_history))

\* On exit from an instruction that returned Ok the UserAccount is written
\* back into its account: the instruction fails when it no longer fits.
exit_user_account(r) ==
    IF r.err = "Ok" /\ user_account_size(r.ua) > 8 + UserAccount_LEN
    THEN [r EXCEPT !.err = "AccountDidNotSerialize", !.events = <<>>]
    ELSE r

\* The overflow-checks settings that have to be told apart for the sum of
\* a and b: both when it overflows, one for both when it does not.
Builds(a, b) ==
    IF i64_add(a, b, TRUE) = i64_add(a, b, FALSE) THEN {TRUE} ELSE OverflowChecks

----------------------------------------------------------------------------
(* initialize_user *)

NoUser == [exists |-> FALSE, wallet |-> "none",
           preferences |-> [risk_threshold |-> 0, watchlist |-> <<>>],
           active_sub |-> FALSE, subscription_expiry |-> I64(0),
           score_history |-> <<>>]

initialize_user(ua, user, preferences) ==
    IF ua.exists
    THEN [err |-> "AccountAlreadyInUse", ua |-> ua, events |-> <<>>]
    ELSE [err |-> "Ok",
          ua |-> [exists |-> TRUE, wallet |-> user, preferences |-> preferences,
                  active_sub |-> FALSE, subscription_expiry |-> I64(0),
                  score_history |-> <<>>],
          events |-> <<>>]

----------------------------------------------------------------------------
(* subscribe *)

get_plan_defaulting(plan_id) ==
    CASE plan_id = 2 -> [err |-> "Ok", id |-> 2,
                         duration |-> 90 * 24 * 60 * 60,
                         price |-> 25 * 10^6]
      [] OTHER -> [err |-> "Ok", id |-> 1,
                   duration |-> 30 * 24 * 60 * 60,
                   price |-> 10 * 10^6]

get_plan(plan_id) ==
    CASE plan_id = 1 -> [err |-> "Ok", id |-> 1,
                         duration |-> 30 * 24 * 60 * 60,
                         price |-> 10 * 10^6]
      [] plan_id = 2 -> [err |-> "Ok", id |-> 2,
                         duration |-> 90 * 24 * 60 * 60,
                         price |-> 25 * 10^6]
      [] OTHER -> [err |-> "InvalidPlan", id |-> 0, duration |-> 0, price |-> 0]

\* The two assignments to the profile made by subscribe.
activate_subscription_fresh(ua, expiry) ==
    [ua EXCEPT !.active_sub = TRUE,
               !.subscription_expiry = expiry,
               !.score_history = <<>>]
activate_subscription(ua, expiry) ==
    [ua EXCEPT !.active_sub = TRUE,
               !.subscription_expiry = expiry]

\* token::transfer(.., payment_amount)? of lines 41-51: `funds` is the
\* balance of the payer's payment account, which lives in the token program;
\* the transfer fails when it is short and `?` hands the failure on.
payment_transfer_unchecked(funds, payment_amount) == "Ok"
payment_transfer(funds, payment_amount) ==
    IF funds < payment_amount THEN "TokenError" ELSE "Ok"

\* A panic in the addition of line 38 finds active_sub already set in memory.
subscribe(ua, clock, plan_id, duration, payment_amount, funds, overflow_checks) ==
    LET plan == get_plan(plan_id) IN
    IF plan.err # "Ok"
    THEN [err |-> plan.err, ua |-> ua, events |-> <<>>]
    ELSE IF ~(payment_amount >= plan.price)
    THEN [err |-> "InsufficientPayment", ua |-> ua, events |-> <<>>]
    ELSE LET expiry == i64_add(I64(clock), u64_as_i64(duration), overflow_checks)
             ua1 == activate_subscription(ua, expiry.value)
         IN IF expiry.err # "Ok"
            THEN [err |-> expiry.err, ua |-> [ua EXCEPT !.active_sub = TRUE],
                  events |-> <<>>]
            ELSE IF payment_transfer(funds, payment_amount) # "Ok"
            THEN [err |-> payment_transfer(funds, payment_amount), ua |-> ua1,
                  events |-> <<>>]
            ELSE [err |-> "Ok", ua |-> ua1, events |-> <<"SubscriptionEvent">>]

\* The two require! checks shared by mint_insurance_nft and trigger_protection.
subscription_unexpired_inclusive(ua, clock) ==
    ~i64_lt(ua.subscription_expiry, I64(clock))
subscription_unexpired(ua, clock) == i64_lt(I64(clock), ua.subscription_expiry)

----------------------------------------------------------------------------
(* update_risk_score *)

Signatures == {"valid", "forged"}

\* The body is a stub: whatever the message and the signature, it returns Ok(()).
verify_iris_signature(message, signature) == "Ok"

\* score_history.last().unwrap().value
earliest_score(ua) == ua.score_history[1].value
latest_score(ua) == ua.score_history[Len(ua.score_history)].value

check_protection_triggers(ua) ==
    IF latest_score(ua) >= ua.preferences.risk_threshold
    THEN [err |-> "Ok", events |-> <<"RiskThresholdBreached">>]
    ELSE [err |-> "Ok", events |-> <<>>]

update_risk_score(ua, score, timestamp, signature) ==
    LET message == [wallet |-> ua.wallet, score |-> score, timestamp |-> timestamp]
        v == verify_iris_signature(message, signature)
    IN IF v # "Ok"
       THEN [err |-> v, ua |-> ua, events |-> <<>>]
       ELSE LET ua1 == [ua EXCEPT !.score_history =
                           Append(@, [value |-> score, timestamp |-> timestamp])]
                t == check_protection_triggers(ua1)
            IN [err |-> t.err, ua |-> ua1, events |-> t.events]

----------------------------------------------------------------------------
(* mint_insurance_nft *)

\* A panic in the addition of line 120 comes after the mint and after the
\* tier has been written to the new (zeroed) InsuranceNFT account.
mint_insurance_nft(ua, nfts, ledger, clock, tier, payout_cap, duration, to, authority, overflow_checks) ==
    IF ~ua.active_sub
    THEN [err |-> "NoActiveSubscription", nfts |-> nfts, ledger |-> ledger, events |-> <<>>]
    ELSE IF ~subscription_unexpired(ua, clock)
    THEN [err |-> "SubscriptionExpired", nfts |-> nfts, ledger |-> ledger, events |-> <<>>]
    ELSE LET m == token_mint_to(ledger, to, authority, 1)
             expiry == i64_add(I64(clock), u64_as_i64(duration), overflow_checks)
         IN IF m.err # "Ok"
            THEN [err |-> m.err, nfts |-> nfts, ledger |-> m.ledger, events |-> <<>>]
            ELSE IF expiry.err # "Ok"
            THEN [err |-> expiry.err,
                  nfts |-> Append(nfts, [tier |-> tier,
                                         expiry |-> I64(0),
                                         payout_cap |-> 0,
                                         token_mint |-> "",
                                         owner |-> ""]),
                  ledger |-> m.ledger,
                  events |-> <<>>]
            ELSE [err |-> "Ok",
                  nfts |-> Append(nfts, [tier |-> tier,
                                         expiry |-> expiry.value,
                                         payout_cap |-> payout_cap,
                                         token_mint |-> "mint",
                                         owner |-> ua.wallet]),
                  ledger |-> m.ledger,
                  events |-> <<"InsuranceNftMinted">>]

----------------------------------------------------------------------------
(* trigger_protection *)

trigger_protection(ua, logs, clock, action_type, token, amount) ==
    IF ~ua.active_sub
    THEN [err |-> "NoActiveSubscription", logs |-> logs, events |-> <<>>]
    ELSE IF ~subscription_unexpired(ua, clock)
    THEN [err |-> "SubscriptionExpired", logs |-> logs, events |-> <<>>]
    ELSE IF action_type \notin {"Swap", "Freeze"}
    THEN [err |-> "InvalidAction", logs |-> logs, events |-> <<>>]
    ELSE IF ua.score_history = <<>>
    THEN \* score_history.last().unwrap() of line 180 panics on an empty
         \* history, after timestamp, trigger_type and token have been
         \* written to the new (zeroed) ActionLog
         [err |-> "Panic",
          logs |-> Append(logs, [timestamp |-> clock,
                                 trigger_type |-> action_type,
                                 token |-> token,
                                 score |-> 0]),
          events |-> <<"ProtectionTriggered">>]
    ELSE [err |-> "Ok",
          logs |-> Append(logs, [timestamp |-> clock,
                                 trigger_type |-> action_type,
                                 token |-> token,
                                 score |-> latest_score(ua)]),
          events |-> <<"ProtectionTriggered">>]

----------------------------------------------------------------------------
(* initiate_claim *)

coverage_unexpired_inclusive(insurance_nft, clock) ==
    ~i64_lt(insurance_nft.expiry, I64(clock))
coverage_unexpired(insurance_nft, clock) == i64_lt(I64(clock), insurance_nft.expiry)

claim_within_cap_unchecked(claim_amount, insurance_nft) == TRUE
claim_within_cap(claim_amount, insurance_nft) == claim_amount <= insurance_nft.payout_cap

\* `nft` is the index of the InsuranceNFT account handed to the instruction,
\* `from` / `to` the token accounts handed as insurance_nft_account and
\* claim_escrow; the new Claim account starts zeroed (init).
initiate_claim(nfts, cls, ledger, clock, nft, user, claim_amount, proof, from, to) ==
    LET insurance_nft == nfts[nft] IN
    IF ~coverage_unexpired(insurance_nft, clock)
    THEN [err |-> "InsuranceExpired", cls |-> cls, ledger |-> ledger, events |-> <<>>]
    ELSE IF ~claim_within_cap(claim_amount, insurance_nft)
    THEN [err |-> "ClaimExceedsCap", cls |-> cls, ledger |-> ledger, events |-> <<>>]
    ELSE LET claim == [claimant |-> user,
                       amount |-> claim_amount,
                       timestamp |-> clock,
                       status |-> "Pending",
                       proof |-> proof,
                       insurance_nft |-> nft,
                       approval_votes |-> 0,
                       rejection_votes |-> 0]
             x == token_transfer(ledger, from, to, user, 1)
         IN IF x.err # "Ok"
            THEN [err |-> x.err, cls |-> Append(cls, claim), ledger |-> x.ledger,
                  events |-> <<>>]
            ELSE [err |-> "Ok", cls |-> Append(cls, claim), ledger |-> x.ledger,
                  events |-> <<"ClaimInitiated">>]

\* The space reserved for a Claim and the bytes its serialisation takes.
Claim_LEN == 32 + 8 + 8 + 1 + (4 + 1024) + 32 + 8 + 8
claim_size(claim) == 8 + 32 + 8 + 8 + 1 + (4 + claim.proof) + 32 + 8 + 8

\* On exit from an initiate_claim that returned Ok the new Claim is written
\* into its account: the instruction fails when it does not fit.
exit_claim(r) ==
    IF r.err = "Ok" /\ claim_size(r.cls[Len(r.cls)]) > 8 + Claim_LEN
    THEN [r EXCEPT !.err = "AccountDidNotSerialize", !.events = <<>>]
    ELSE r

----------------------------------------------------------------------------
(* vote_on_claim *)

is_authorized_anyone(gov, voter) == TRUE
is_authorized(gov, voter) == voter = gov.authority

\* The comparison of a tally with the quorum made after every vote.
quorum_exceeded(votes, gov) == votes > gov.quorum
quorum_reached(votes, gov) == votes >= gov.quorum

\* Both helpers are stubs that return Ok(()) and touch nothing.
process_payout(claim) == [err |-> "Ok", claim |-> claim]
return_nft_to_owner(claim) == [err |-> "Ok", claim |-> claim]

\* payout_calls / return_calls count the invocations of process_payout and
\* return_nft_to_owner made by this call.
vote_on_claim(claim, gov, voter, approve) ==
    IF ~is_authorized(gov, voter)
    THEN [err |-> "UnauthorizedGovernance", claim |-> claim,
          payout_calls |-> 0, return_calls |-> 0, events |-> <<>>]
    ELSE LET c1 == IF approve
                   THEN [claim EXCEPT !.approval_votes = @ + 1]
                   ELSE [claim EXCEPT !.rejection_votes = @ + 1]
         IN IF quorum_reached(c1.approval_votes, gov)
            THEN LET p == process_payout([c1 EXCEPT !.status = "Approved"]) IN
                 [err |-> p.err, claim |-> p.claim,
                  payout_calls |-> 1, return_calls |-> 0, events |-> <<"ClaimVoted">>]
            ELSE IF quorum_reached(c1.rejection_votes, gov)
            THEN LET r == return_nft_to_owner([c1 EXCEPT !.status = "Rejected"]) IN
                 [err |-> r.err, claim |-> r.claim,
                  payout_calls |-> 0, return_calls |-> 1, events |-> <<"ClaimVoted">>]
            ELSE [err |-> "Ok", claim |-> c1,
                  payout_calls |-> 0, return_calls |-> 0, events |-> <<"ClaimVoted">>]

----------------------------------------------------------------------------
(* The instructions as actions.  Each XxxWith(inputs) applies the handler   *)
(* to the current accounts and commits what it returns.                    *)

Count(events, e) == Cardinality({i \in DOMAIN events : events[i] = e})

RECURSIVE VotesCast(_)
VotesCast(cls) ==
    IF cls = <<>> THEN 0
    ELSE Head(cls).approval_votes + Head(cls).rejection_votes + VotesCast(Tail(cls))

\* What a behaviour has built up so far: ticks, records, scores and votes.
Size ==
    now + (IF user_account.exists THEN 1 ELSE 0) + Len(user_account.score_history)
    + Len(insurance_nfts) + Len(action_logs) + Len(claims) + VotesCast(claims)

\* No instruction creates the Governance account: it is there only once
\* it has been provisioned from outside the program.
NoGovernance == [exists |-> FALSE, authority |-> "none", quorum |-> 0,
                 voting_duration |-> 0]

Init ==
    /\ now = 0
    /\ governance = NoGovernance
    /\ user_account = NoUser
    /\ insurance_nfts = <<>>
    /\ action_logs = <<>>
    /\ claims = <<>>
    /\ payouts = <<>>
    /\ breaches = 0
    /\ bal = [a \in TokenAccounts |-> 0]

Tick ==
    /\ now < MaxTime
    /\ Size < MaxSize
    /\ now' = now + 1
    /\ UNCHANGED <<governance, user_account, insurance_nfts, action_logs,
                   claims, payouts, breaches, bal>>

\* The Governance account is set up, once, with a quorum that nothing in
\* the program constrains.
ProvisionGovernance ==
    /\ ~governance.exists
    /\ governance' \in [exists : {TRUE}, authority : {Authority},
                        quorum : 0..MaxQuorum, voting_duration : {0}]
    /\ UNCHANGED <<now, user_account, insurance_nfts, action_logs, claims,
                   payouts, breaches, bal>>

InitializeUserWith(user, preferences) ==
    LET r == exit_user_account(initialize_user(user_account, user, preferences)) IN
    /\ user_account' = Commit(r.err, user_account, r.ua)
    /\ UNCHANGED <<now, governance, insurance_nfts, action_logs, claims,
                   payouts, breaches, bal>>

InitializeUser ==
    \E user \in Users, preferences \in Preferences :
        InitializeUserWith(user, preferences)

SubscribeWith(plan_id, duration, payment_amount, funds, overflow_checks) ==
    LET r == exit_user_account(subscribe(user_account, now, plan_id, duration,
                                         payment_amount, funds, overflow_checks)) IN
    /\ user_account' = Commit(r.err, user_account, r.ua)
    /\ UNCHANGED <<now, governance, insurance_nfts, action_logs, claims,
                   payouts, breaches, bal>>

Subscribe ==
    /\ user_account.exists
    /\ \E plan_id \in PlanIds, duration \in SubDurations,
          payment_amount \in Payments, funds \in PayerFunds :
        \E overflow_checks \in Builds(I64(now), u64_as_i64(duration)) :
        SubscribeWith(plan_id, duration, payment_amount, funds, overflow_checks)

UpdateRiskScoreWith(score, timestamp, signature) ==
    LET r == exit_user_account(update_risk_score(user_account, score, timestamp,
                                                 signature)) IN
    /\ user_account' = Commit(r.err, user_account, r.ua)
    /\ breaches' = Commit(r.err, breaches,
                          breaches + Count(r.events, "RiskThresholdBreached"))
    /\ UNCHANGED <<now, governance, insurance_nfts, action_logs, claims,
                   payouts, bal>>

UpdateRiskScoreUpTo(cap) ==
    /\ user_account.exists
    /\ Len(user_account.score_history) < cap
    /\ \E score \in Scores, timestamp \in Timestamps, signature \in Signatures :
        UpdateRiskScoreWith(score, timestamp, signature)

UpdateRiskScore == Size < MaxSize /\ UpdateRiskScoreUpTo(MaxSize)

MintInsuranceNftWith(tier, payout_cap, duration, to, authority, overflow_checks) ==
    LET r == mint_insurance_nft(user_account, insurance_nfts, bal, now, tier,
                                payout_cap, duration, to, authority,
                                overflow_checks) IN
    /\ insurance_nfts' = Commit(r.err, insurance_nfts, r.nfts)
    /\ bal' = Commit(r.err, bal, r.ledger)
    /\ UNCHANGED <<now, governance, user_account, action_logs, claims,
                   payouts, breaches>>

MintInsuranceNft ==
    /\ user_account.exists
    /\ Size < MaxSize
    /\ \E tier \in Tiers, payout_cap \in PayoutCaps, duration \in NftDurations,
          to \in NftAccounts, authority \in MintSigners :
        \E overflow_checks \in Builds(I64(now), u64_as_i64(duration)) :
        MintInsuranceNftWith(tier, payout_cap, duration, to, authority,
                             overflow_checks)

TriggerProtectionWith(action_type, token, amount) ==
    LET r == trigger_protection(user_account, action_logs, now,
                                action_type, token, amount) IN
    /\ action_logs' = Commit(r.err, action_logs, r.logs)
    /\ UNCHANGED <<now, governance, user_account, insurance_nfts, claims,
                   payouts, breaches, bal>>

TriggerProtection ==
    /\ user_account.exists
    /\ Size < MaxSize
    /\ \E action_type \in ActionTypes, token \in Tokens, amount \in Amounts :
        TriggerProtectionWith(action_type, token, amount)

InitiateClaimWith(nft, user, claim_amount, proof, from, to) ==
    LET r == exit_claim(initiate_claim(insurance_nfts, claims, bal, now, nft, user,
                                       claim_amount, proof, from, to)) IN
    /\ claims' = Commit(r.err, claims, r.cls)
    /\ payouts' = Commit(r.err, payouts, Append(payouts, 0))
    /\ bal' = Commit(r.err, bal, r.ledger)
    /\ UNCHANGED <<now, governance, user_account, insurance_nfts, action_logs,
                   breaches>>

InitiateClaim ==
    /\ Size < MaxSize
    /\ \E nft \in DOMAIN insurance_nfts, user \in Signers,
          claim_amount \in ClaimAmounts, proof \in Proofs,
          from \in NftAccounts, to \in EscrowAccounts :
        InitiateClaimWith(nft, user, claim_amount, proof, from, to)

\* Account<Governance> is loaded before the handler runs: without such an
\* account the instruction fails there.
load_governance(gov, r) ==
    IF gov.exists
    THEN r
    ELSE [r EXCEPT !.err = "AccountNotInitialized"]

VoteOnClaimWith(c, voter, approve) ==
    LET r == load_governance(governance,
                             vote_on_claim(claims[c], governance, voter, approve)) IN
    /\ claims' = Commit(r.err, claims, [claims EXCEPT ![c] = r.claim])
    /\ payouts' = Commit(r.err, payouts, [payouts EXCEPT ![c] = @ + r.payout_calls])
    /\ UNCHANGED <<now, governance, user_account, insurance_nfts, action_logs,
                   breaches, bal>>

VoteOnClaim ==
    /\ Size < MaxSize
    /\ \E c \in DOMAIN claims, voter \in Voters, approve \in BOOLEAN :
        VoteOnClaimWith(c, voter, approve)

Next ==
    \/ Tick
    \/ ProvisionGovernance
    \/ InitializeUser
    \/ Subscribe
    \/ UpdateRiskScore
    \/ MintInsuranceNft
    \/ TriggerProtection
    \/ InitiateClaim
    \/ VoteOnClaim

Spec == Init /\ [][Next]_vars

----------------------------------------------------------------------------
(* Score ingestion alone, on an initialised profile, far enough to fill    *)
(* the space reserved for the history.                                     *)

InitHistory ==
    /\ now = 0
    /\ governance = NoGovernance
    /\ user_account \in {initialize_user(NoUser, u, preferences).ua :
                            u \in Users, preferences \in HistoryPreferences}
    /\ insurance_nfts = <<>>
    /\ action_logs = <<>>
    /\ claims = <<>>
    /\ payouts = <<>>
    /\ breaches = 0
    /\ bal = [a \in TokenAccounts |-> 0]

UpdateRiskScoreLong == UpdateRiskScoreUpTo(MaxHistory)

NextHistory == UpdateRiskScoreLong

SpecHistory == InitHistory /\ [][NextHistory]_vars

----------------------------------------------------------------------------
(* The claim / voting state machine *)

Terminal == {"Approved", "Rejected"}

\* C1: once a claim is Approved or Rejected (under a quorum above zero), no
\* later instruction changes its approval_votes or rejection_votes: a vote on
\* a terminal claim is refused.
C1_TerminalVotesFrozen ==
    [][\A c \in DOMAIN claims :
         (governance.quorum > 0 /\ claims[c].status \in Terminal) =>
            /\ claims'[c].approval_votes = claims[c].approval_votes
            /\ claims'[c].rejection_votes = claims[c].rejection_votes]_vars

\* C2: under a Governance account with quorum q > 0, a claim is Approved as
\* soon as its approval_votes have reached q, and process_payout has then
\* been invoked exactly once for it (and never before q was reached).
C2_PayoutExactlyOnce ==
    (governance.exists /\ governance.quorum > 0) =>
        \A c \in DOMAIN claims :
            IF claims[c].approval_votes >= governance.quorum
            THEN claims[c].status = "Approved" /\ payouts[c] = 1
            ELSE payouts[c] = 0

\* C3: the only status changes are Pending -> Approved and Pending -> Rejected;
\* a Rejected claim never becomes Approved, an Approved one never Rejected.
C3_StatusTerminal ==
    [][\A c \in DOMAIN claims :
         claims'[c].status # claims[c].status =>
            claims[c].status = "Pending" /\ claims'[c].status \in Terminal]_vars

\* C4: at most one Pending claim references any given coverage.
C4_OnePendingClaimPerCoverage ==
    \A c1, c2 \in DOMAIN claims :
        (/\ c1 # c2
         /\ claims[c1].status = "Pending"
         /\ claims[c2].status = "Pending")
        => claims[c1].insurance_nft # claims[c2].insurance_nft

\* The coverage token account of an identity.
AccountOf(owner) == CHOOSE a \in NftAccounts : TokenOwner[a] = owner

\* C5: the vote that resolves a claim to Rejected moves the escrowed coverage
\* token out of escrow, back to the account of the coverage's owner, and
\* leaves the coverage record's tier, expiry and payout_cap as they were.
C5_RejectedReturnsCoverage ==
    [][\A c \in DOMAIN claims :
         (claims[c].status # "Rejected" /\ claims'[c].status = "Rejected") =>
            LET n == claims[c].insurance_nft
                a == AccountOf(insurance_nfts[n].owner)
            IN /\ bal'["escrow"] = bal["escrow"] - 1
               /\ bal'[a] = bal[a] + 1
               /\ insurance_nfts'[n].tier = insurance_nfts[n].tier
               /\ insurance_nfts'[n].expiry = insurance_nfts[n].expiry
               /\ insurance_nfts'[n].payout_cap = insurance_nfts[n].payout_cap]_vars

----------------------------------------------------------------------------
(* Score history *)

\* C6: the score history never holds more than HistoryCapacity entries, and
\* an update applied to a full history drops exactly the oldest entry and
\* appends the new one.
C6_HistoryBoundedFifo ==
    [][LET h == user_account.score_history
           h2 == user_account'.score_history
       IN /\ Len(h2) <= HistoryCapacity
          /\ (Len(h) = HistoryCapacity /\ h2 # h) =>
                h2 = Append(Tail(h), h2[Len(h2)])]_vars

----------------------------------------------------------------------------
(* Failure semantics *)

\* The errors of the program's ErrorCode: each reports a precondition.
PreconditionErrors ==
    {"InsufficientPayment", "NoActiveSubscription", "SubscriptionExpired",
     "InvalidAction", "InsuranceExpired", "ClaimExceedsCap",
     "UnauthorizedGovernance", "InvalidPlan", "InvalidSignature"}

\* C7: an instruction that fails leaves profile, coverage, claim and
\* action-log state (and the token ledger) as it was before the call.  For
\* every instruction and every input: a handler that fails on a precondition
\* returns with every account in memory as it was handed in (its checks come
\* before its writes); a handler whose token transfer or mint fails returns
\* an error, never Ok; and of an instruction that returned an error, for
\* whatever reason, nothing the handler had written in memory is kept.
C7_FailureLeavesRecords ==
    /\ \A user \in Users, preferences \in Preferences :
          LET r == exit_user_account(initialize_user(user_account, user, preferences))
          IN r.err # "Ok" =>
                /\ r.ua = user_account
                /\ Commit(r.err, user_account, r.ua) = user_account
    /\ user_account.exists =>
       \A plan_id \in PlanIds, duration \in WideDurations,
          payment_amount \in Payments, funds \in PayerFunds,
          overflow_checks \in OverflowChecks :
          LET r == exit_user_account(
                       subscribe(user_account, now, plan_id, duration,
                                 payment_amount, funds, overflow_checks))
          IN /\ r.err \in PreconditionErrors => r.ua = user_account
             /\ funds < payment_amount => r.err # "Ok"
             /\ r.err # "Ok" => Commit(r.err, user_account, r.ua) = user_account
    /\ user_account.exists =>
       \A score \in Scores, timestamp \in Timestamps,
          signature \in Signatures :
          LET r == exit_user_account(
                       update_risk_score(user_account, score, timestamp, signature))
          IN /\ r.err \in PreconditionErrors =>
                   r.ua = user_account /\ r.events = <<>>
             /\ r.err # "Ok" =>
                   /\ Commit(r.err, user_account, r.ua) = user_account
                   /\ Commit(r.err, breaches,
                             breaches + Count(r.events, "RiskThresholdBreached"))
                      = breaches
    /\ user_account.exists =>
       \A tier \in Tiers, payout_cap \in PayoutCaps, duration \in WideDurations,
          to \in NftAccounts, authority \in MintSigners,
          overflow_checks \in OverflowChecks :
          LET r == mint_insurance_nft(user_account, insurance_nfts, bal, now, tier,
                                      payout_cap, duration, to, authority,
                                      overflow_checks)
          IN /\ r.err \in PreconditionErrors =>
                   r.nfts = insurance_nfts /\ r.ledger = bal
             /\ token_mint_to(bal, to, authority, 1).err # "Ok" => r.err # "Ok"
             /\ r.err # "Ok" =>
                   /\ Commit(r.err, insurance_nfts, r.nfts) = insurance_nfts
                   /\ Commit(r.err, bal, r.ledger) = bal
    /\ user_account.exists =>
       \A action_type \in ActionTypes, token \in Tokens, amount \in Amounts :
          LET r == trigger_protection(user_account, action_logs, now,
                                      action_type, token, amount)
          IN /\ r.err \in PreconditionErrors => r.logs = action_logs
             /\ r.err # "Ok" => Commit(r.err, action_logs, r.logs) = action_logs
    /\ \A nft \in DOMAIN insurance_nfts, user \in Signers,
          claim_amount \in ClaimAmounts, proof \in Proofs,
          from \in NftAccounts, to \in EscrowAccounts :
          LET r == exit_claim(initiate_claim(insurance_nfts, claims, bal, now, nft, user,
                                             claim_amount, proof, from, to))
          IN /\ r.err \in PreconditionErrors => r.cls = claims /\ r.ledger = bal
             /\ token_transfer(bal, from, to, user, 1).err # "Ok" => r.err # "Ok"
             /\ r.err # "Ok" =>
                   /\ Commit(r.err, claims, r.cls) = claims
                   /\ Commit(r.err, payouts, Append(payouts, 0)) = payouts
                   /\ Commit(r.err, bal, r.ledger) = bal
    /\ \A c \in DOMAIN claims, voter \in Voters, approve \in BOOLEAN :
          LET r == load_governance(governance,
                       vote_on_claim(claims[c], governance, voter, approve))
          IN /\ r.err \in PreconditionErrors =>
                   r.claim = claims[c] /\ r.payout_calls = 0
             /\ r.err # "Ok" =>
                   /\ Commit(r.err, claims, [claims EXCEPT ![c] = r.claim]) = claims
                   /\ Commit(r.err, payouts,
                             [payouts EXCEPT ![c] = @ + r.payout_calls]) = payouts

\* A subscribed profile holding a coverage, where a subscribe whose payment
\* transfer fails has already set the subscription fields in memory and an
\* initiate_claim whose escrow transfer fails has already built the claim.
C7_Witness ==
    /\ user_account.active_sub
    /\ \E plan_id \in PlanIds, duration \in SubDurations,
          payment_amount \in Payments, funds \in PayerFunds,
          overflow_checks \in OverflowChecks :
          LET r == subscribe(user_account, now, plan_id, duration,
                             payment_amount, funds, overflow_checks)
          IN r.err = "TokenError" /\ r.ua # user_account
    /\ \E nft \in DOMAIN insurance_nfts, user \in Signers,
          claim_amount \in ClaimAmounts, proof \in Proofs,
          from \in NftAccounts, to \in EscrowAccounts :
          LET r == initiate_claim(insurance_nfts, claims, bal, now, nft, user,
                                  claim_amount, proof, from, to)
          IN r.err = "TokenError" /\ r.cls # claims

----------------------------------------------------------------------------
(* Preconditions of initiate_claim *)

ClaimsWithinCap ==
    \A c \in DOMAIN claims :
        claims[c].amount <= insurance_nfts[claims[c].insurance_nft].payout_cap

\* What initiate_claim answers to a claim_amount above the coverage's cap,
\* given the error `expected` for each coverage.
ExceedingClaimRefused(expected(_)) ==
    \A nft \in DOMAIN insurance_nfts, user \in Signers,
       claim_amount \in ClaimAmounts, proof \in Proofs,
       from \in NftAccounts, to \in EscrowAccounts :
        claim_amount > insurance_nfts[nft].payout_cap =>
            LET r == exit_claim(initiate_claim(insurance_nfts, claims, bal, now, nft, user,
                                               claim_amount, proof, from, to))
            IN /\ r.err = expected(nft)
               /\ Commit(r.err, claims, r.cls) = claims
               /\ Commit(r.err, bal, r.ledger) = bal

\* C8 as stated: an initiate_claim with claim_amount > payout_cap is always
\* refused with ClaimExceedsCap, creates no claim and escrows no token, and
\* every claim's amount is at most the payout_cap of its coverage.
C8_AlwaysClaimExceedsCap ==
    LET expected(nft) == "ClaimExceedsCap"
    IN ExceedingClaimRefused(expected) /\ ClaimsWithinCap

\* C8 amended: an initiate_claim with claim_amount > payout_cap is always
\* refused, with ClaimExceedsCap while now < coverage.expiry and with
\* InsuranceExpired otherwise; it creates no claim and escrows no token, and
\* every claim's amount is at most the payout_cap of its coverage.
C8_ExceedingClaimRefused ==
    LET expected(nft) == IF i64_lt(I64(now), insurance_nfts[nft].expiry)
                         THEN "ClaimExceedsCap" ELSE "InsuranceExpired"
    IN ExceedingClaimRefused(expected) /\ ClaimsWithinCap

\* A claim has been filed, and an unexpired coverage is there on which a
\* claim above the cap is answered ClaimExceedsCap.
C8_Witness ==
    /\ claims # <<>>
    /\ \E nft \in DOMAIN insurance_nfts, claim_amount \in ClaimAmounts :
          /\ i64_lt(I64(now), insurance_nfts[nft].expiry)
          /\ claim_amount > insurance_nfts[nft].payout_cap
          /\ initiate_claim(insurance_nfts, claims, bal, now, nft, "u1",
                            claim_amount, 32, "nft_u1", "escrow").err
             = "ClaimExceedsCap"

----------------------------------------------------------------------------
(* Subscription gate of mint_insurance_nft and trigger_protection *)

\* C9: while the profile has active_sub = FALSE, or now >= subscription_expiry,
\* mint_insurance_nft and trigger_protection fail whatever their other inputs
\* (NoActiveSubscription in the first case, SubscriptionExpired otherwise),
\* and no step from such a state adds a coverage or an action log.
C9_SubscriptionGate ==
    [][(user_account.exists
        /\ (~user_account.active_sub \/ ~i64_lt(I64(now), user_account.subscription_expiry)))
       =>
       LET e == IF ~user_account.active_sub
                THEN "NoActiveSubscription" ELSE "SubscriptionExpired"
       IN /\ \A tier \in Tiers, payout_cap \in PayoutCaps, duration \in NftDurations,
                to \in NftAccounts, authority \in MintSigners,
                overflow_checks \in OverflowChecks :
                mint_insurance_nft(user_account, insurance_nfts, bal, now, tier,
                                   payout_cap, duration, to, authority,
                                   overflow_checks).err = e
          /\ \A action_type \in ActionTypes, token \in Tokens, amount \in Amounts :
                trigger_protection(user_account, action_logs, now,
                                   action_type, token, amount).err = e
          /\ insurance_nfts' = insurance_nfts
          /\ action_logs' = action_logs]_vars

\* A profile that holds a coverage and an action log from the time it was
\* subscribed, and whose subscription has since expired.
C9_Witness ==
    /\ user_account.active_sub
    /\ ~i64_lt(I64(now), user_account.subscription_expiry)
    /\ insurance_nfts # <<>>
    /\ action_logs # <<>>
    /\ mint_insurance_nft(user_account, insurance_nfts, bal, now, 1, 100, U64(1),
                          "nft_u1", "iris", TRUE).err = "SubscriptionExpired"

----------------------------------------------------------------------------
(* Oracle signature *)

\* C10: an update_risk_score whose signature does not verify fails with
\* InvalidSignature and appends nothing to the score history.
C10_ForgedUpdateRefused ==
    [][\A score \in Scores, timestamp \in Timestamps :
         UpdateRiskScoreWith(score, timestamp, "forged") =>
            /\ update_risk_score(user_account, score, timestamp, "forged").err
               = "InvalidSignature"
            /\ user_account'.score_history = user_account.score_history]_vars

----------------------------------------------------------------------------
(* Voting authority *)

\* C11: a vote_on_claim cast, under an existing Governance account, by a
\* voter other than governance.authority fails with UnauthorizedGovernance
\* and leaves the claim's approval_votes, rejection_votes and status as they
\* were; every change of an existing claim is the effect of a vote cast by
\* the authority.
C11_UnauthorizedVoteRefused ==
    [][\A c \in DOMAIN claims :
         /\ \A voter \in Voters \ {governance.authority}, approve \in BOOLEAN :
               /\ governance.exists =>
                     load_governance(governance,
                         vote_on_claim(claims[c], governance, voter, approve)).err
                     = "UnauthorizedGovernance"
               /\ VoteOnClaimWith(c, voter, approve) =>
                     /\ claims'[c].approval_votes = claims[c].approval_votes
                     /\ claims'[c].rejection_votes = claims[c].rejection_votes
                     /\ claims'[c].status = claims[c].status
         /\ claims'[c] # claims[c] =>
               \E approve \in BOOLEAN :
                   VoteOnClaimWith(c, governance.authority, approve)]_vars

\* A claim the authority has voted on, in a state where somebody else votes.
C11_Witness ==
    \E c \in DOMAIN claims :
        /\ governance.exists
        /\ claims[c].approval_votes + claims[c].rejection_votes > 0
        /\ \E voter \in Voters :
              /\ voter # governance.authority
              /\ vote_on_claim(claims[c], governance, voter, TRUE).err # "Ok"

----------------------------------------------------------------------------
(* Subscription plans *)

\* C12: subscribe with a plan_id other than 1 or 2 fails with InvalidPlan
\* whatever the payment; with plan 1 and a payment below 10,000,000, or plan 2
\* and a payment below 25,000,000, it fails with InsufficientPayment; in both
\* cases the profile's active_sub and subscription_expiry stay as they were.
C12_PlanAndPriceChecked ==
    user_account.exists =>
        \A plan_id \in PlanIds, duration \in SubDurations,
           payment_amount \in Payments \cup {24999999}, funds \in PayerFunds,
           overflow_checks \in OverflowChecks :
            LET r == subscribe(user_account, now, plan_id, duration,
                               payment_amount, funds, overflow_checks)
                after == Commit(r.err, user_account, r.ua)
                kept == /\ after.active_sub = user_account.active_sub
                        /\ after.subscription_expiry = user_account.subscription_expiry
            IN /\ plan_id \notin {1, 2} => r.err = "InvalidPlan" /\ kept
               /\ (plan_id = 1 /\ payment_amount < 10000000) =>
                     r.err = "InsufficientPayment" /\ kept
               /\ (plan_id = 2 /\ payment_amount < 25000000) =>
                     r.err = "InsufficientPayment" /\ kept

\* A subscribed profile that is handed an unknown plan, an underpaid plan 1
\* and an underpaid plan 2.
C12_Witness ==
    /\ user_account.exists
    /\ user_account.active_sub
    /\ i64_lt(I64(now), user_account.subscription_expiry)
    /\ \E plan_id \in PlanIds, duration \in SubDurations, funds \in PayerFunds :
          /\ plan_id \notin {1, 2}
          /\ subscribe(user_account, now, plan_id, duration, 25000000, funds,
                       TRUE).err
             = "InvalidPlan"
    /\ \E duration \in SubDurations, funds \in PayerFunds :
          /\ subscribe(user_account, now, 1, duration, 9999999, funds, TRUE).err
             = "InsufficientPayment"
          /\ subscribe(user_account, now, 2, duration, 24999999, funds, TRUE).err
             = "InsufficientPayment"

----------------------------------------------------------------------------
(* Risk scores and protection *)

\* C13: every successful update_risk_score emits exactly one
\* RiskThresholdBreached event when the score it ingested is at or above the
\* profile's risk_threshold and none when it is below; the score compared is
\* the one just ingested, and no other instruction emits the event.
C13_BreachOnIngestedScore ==
    [][/\ \A score \in Scores, timestamp \in Timestamps, signature \in Signatures :
            LET r == update_risk_score(user_account, score, timestamp, signature) IN
            (/\ user_account' # user_account
             /\ r.err = "Ok"
             /\ UpdateRiskScoreWith(score, timestamp, signature)) =>
                IF score >= user_account.preferences.risk_threshold
                THEN /\ r.events = <<"RiskThresholdBreached">>
                     /\ breaches' = breaches + 1
                ELSE /\ r.events = <<>>
                     /\ breaches' = breaches
       /\ breaches' # breaches =>
            \E score \in Scores, timestamp \in Timestamps, signature \in Signatures :
                UpdateRiskScoreWith(score, timestamp, signature)]_vars

\* A score below the threshold followed by one at the threshold: one event.
C13_Witness ==
    /\ Len(user_account.score_history) = 2
    /\ user_account.score_history[1].value < user_account.preferences.risk_threshold
    /\ user_account.score_history[2].value >= user_account.preferences.risk_threshold
    /\ breaches = 1

\* C14: update_risk_score is the only instruction that changes a profile's
\* score_history: subscribe, mint_insurance_nft, trigger_protection,
\* initiate_claim and vote_on_claim leave it as it was; and an
\* update_risk_score, breach evaluation included, moves no token and changes
\* no coverage, claim or action log.
C14_OnlyUpdateChangesHistory ==
    [][/\ user_account'.score_history # user_account.score_history =>
            /\ \E score \in Scores, timestamp \in Timestamps,
                  signature \in Signatures :
                  UpdateRiskScoreWith(score, timestamp, signature)
            /\ ~ \E plan_id \in PlanIds, duration \in SubDurations,
                    payment_amount \in Payments, funds \in PayerFunds :
                    \E overflow_checks \in Builds(I64(now), u64_as_i64(duration)) :
                    SubscribeWith(plan_id, duration, payment_amount, funds,
                                  overflow_checks)
       /\ (\/ bal' # bal
           \/ insurance_nfts' # insurance_nfts
           \/ claims' # claims
           \/ action_logs' # action_logs) =>
            ~ \E score \in Scores, timestamp \in Timestamps,
                 signature \in Signatures :
                 UpdateRiskScoreWith(score, timestamp, signature)]_vars

\* A profile with a score on record on which every other instruction has acted.
C14_Witness ==
    /\ user_account.score_history # <<>>
    /\ user_account.active_sub
    /\ insurance_nfts # <<>>
    /\ action_logs # <<>>
    /\ claims # <<>>

\* C15: on a profile with an active, unexpired subscription,
\* trigger_protection with Swap or Freeze and a non-empty score history
\* succeeds and writes exactly one ActionLog, whose score is the score most
\* recently ingested; with Alert or Claim it fails with InvalidAction; with an
\* empty score history it fails and writes no ActionLog.
C15_TriggerWritesLatestScore ==
    (/\ user_account.exists
     /\ user_account.active_sub
     /\ i64_lt(I64(now), user_account.subscription_expiry)) =>
        \A action_type \in ActionTypes, token \in Tokens, amount \in Amounts :
            LET r == trigger_protection(user_account, action_logs, now,
                                        action_type, token, amount)
                after == Commit(r.err, action_logs, r.logs)
                history == user_account.score_history
            IN /\ (action_type \in {"Swap", "Freeze"} /\ history # <<>>) =>
                     /\ r.err = "Ok"
                     /\ Len(after) = Len(action_logs) + 1
                     /\ SubSeq(after, 1, Len(action_logs)) = action_logs
                     /\ after[Len(after)].score = history[Len(history)].value
                     /\ after[Len(after)].trigger_type = action_type
               /\ action_type \in {"Alert", "Claim"} => r.err = "InvalidAction"
               /\ history = <<>> => r.err # "Ok" /\ after = action_logs

\* Two different scores on record and an ActionLog that carries the later one.
C15_Witness ==
    /\ user_account.active_sub
    /\ i64_lt(I64(now), user_account.subscription_expiry)
    /\ Len(user_account.score_history) = 2
    /\ user_account.score_history[1].value # user_account.score_history[2].value
    /\ \E l \in DOMAIN action_logs :
          action_logs[l].score = user_account.score_history[2].value

----------------------------------------------------------------------------
(* Status and tallies *)

\* C16: with a fixed quorum q > 0, a claim is Pending exactly when both its
\* approval_votes and its rejection_votes are below q; an Approved claim has
\* approval_votes >= q; a Rejected claim has rejection_votes >= q and
\* approval_votes < q.
C16_StatusAgreesWithTallies ==
    \A c \in DOMAIN claims :
        LET q == governance.quorum
            claim == claims[c]
        IN (governance.exists /\ q > 0) =>
              /\ claim.status = "Pending" <=>
                    (claim.approval_votes < q /\ claim.rejection_votes < q)
              /\ claim.status = "Approved" => claim.approval_votes >= q
              /\ claim.status = "Rejected" =>
                    (claim.rejection_votes >= q /\ claim.approval_votes < q)

\* A claim resolved under a quorum of two after votes on both sides.
C16_Witness ==
    \E c \in DOMAIN claims :
        /\ governance.exists
        /\ governance.quorum > 1
        /\ claims[c].status \in Terminal
        /\ claims[c].approval_votes > 0
        /\ claims[c].rejection_votes > 0

----------------------------------------------------------------------------
(* Filing a claim *)

\* C17: initiate_claim on a coverage with now >= expiry fails with
\* InsuranceExpired, also when the amount exceeds the payout cap; a successful
\* initiate_claim creates one claim with status Pending, approval_votes = 0,
\* rejection_votes = 0, amount = claim_amount and a reference to the coverage
\* it was filed on.
C17_ExpiredRefusedElsePending ==
    \A nft \in DOMAIN insurance_nfts, user \in Signers,
       claim_amount \in ClaimAmounts, proof \in Proofs,
       from \in NftAccounts, to \in EscrowAccounts :
        LET r == exit_claim(initiate_claim(insurance_nfts, claims, bal, now, nft, user,
                                           claim_amount, proof, from, to))
            after == Commit(r.err, claims, r.cls)
        IN /\ ~i64_lt(I64(now), insurance_nfts[nft].expiry) => r.err = "InsuranceExpired"
           /\ r.err = "Ok" =>
                 /\ Len(after) = Len(claims) + 1
                 /\ SubSeq(after, 1, Len(claims)) = claims
                 /\ after[Len(after)].status = "Pending"
                 /\ after[Len(after)].approval_votes = 0
                 /\ after[Len(after)].rejection_votes = 0
                 /\ after[Len(after)].amount = claim_amount
                 /\ after[Len(after)].insurance_nft = nft

\* A claim on record for a coverage that has since expired, on which a
\* further claim above the cap is refused as expired.
C17_Witness ==
    \E c \in DOMAIN claims :
        /\ ~i64_lt(I64(now), insurance_nfts[claims[c].insurance_nft].expiry)
        /\ \E user \in Signers, claim_amount \in ClaimAmounts, proof \in Proofs,
              from \in NftAccounts, to \in EscrowAccounts :
              /\ claim_amount > insurance_nfts[claims[c].insurance_nft].payout_cap
              /\ initiate_claim(insurance_nfts, claims, bal, now,
                                claims[c].insurance_nft, user, claim_amount,
                                proof, from, to).err = "InsuranceExpired"

\* C18: the claimant of every claim is the owner of the coverage the claim
\* references (initiate_claim succeeds only for the coverage's owner).
C18_ClaimantOwnsCoverage ==
    \A c \in DOMAIN claims :
        claims[c].claimant = insurance_nfts[claims[c].insurance_nft].owner

----------------------------------------------------------------------------
(* Subscription expiry over the whole range of the duration argument *)

\* C19: a successful subscribe sets active_sub = true and subscription_expiry
\* = now + duration with the duration the caller supplied, overwriting the
\* previous expiry even by an earlier one; for every u64 duration the
\* resulting expiry is not earlier than now (no wrap-around in the
\* conversion to i64 or in the addition).
C19_ExpiryNotBeforeNow ==
    user_account.exists =>
        \A plan_id \in PlanIds, duration \in WideDurations,
           payment_amount \in Payments, funds \in PayerFunds,
           overflow_checks \in OverflowChecks :
            LET r == subscribe(user_account, now, plan_id, duration,
                               payment_amount, funds, overflow_checks)
                after == Commit(r.err, user_account, r.ua)
            IN r.err = "Ok" =>
                  /\ after.active_sub
                  /\ after.subscription_expiry = wrapping_add(I64(now), duration)
                  /\ ~i64_lt(after.subscription_expiry, I64(now))

----------------------------------------------------------------------------
(* Voting alone, on a claim just filed, with the authority's votes          *)
(* delivered fairly.                                                       *)

\* Votes cast on one claim under SpecVoting: enough for the largest quorum
\* to be reached by either side after the other side fell one short.
VoteCap == 2 * MaxVotingQuorum

\* The state after initialize_user, subscribe, mint_insurance_nft and
\* initiate_claim have each succeeded once at time 0.
InitVoting ==
    /\ now = 0
    /\ governance \in [exists : {TRUE}, authority : {Authority},
                       quorum : 1..MaxVotingQuorum, voting_duration : {0}]
    /\ action_logs = <<>>
    /\ payouts = <<0>>
    /\ breaches = 0
    /\ \E user \in Users, preferences \in Preferences, duration \in SubDurations,
          tier \in Tiers, payout_cap \in PayoutCaps, nft_duration \in NftDurations,
          account \in NftAccounts, claimant \in Signers,
          claim_amount \in ClaimAmounts, proof \in Proofs, escrow \in EscrowAccounts,
          overflow_checks \in OverflowChecks :
        LET i == initialize_user(NoUser, user, preferences)
            s == subscribe(i.ua, 0, 1, duration, 10000000, 25000000, overflow_checks)
            m == mint_insurance_nft(s.ua, <<>>, [a \in TokenAccounts |-> 0], 0,
                                    tier, payout_cap, nft_duration, account,
                                    MintAuthority, overflow_checks)
            k == exit_claim(initiate_claim(m.nfts, <<>>, m.ledger, 0, 1, claimant,
                                           claim_amount, proof, account, escrow))
        IN /\ i.err = "Ok" /\ s.err = "Ok" /\ m.err = "Ok" /\ k.err = "Ok"
           /\ user_account = s.ua
           /\ insurance_nfts = m.nfts
           /\ claims = k.cls
           /\ bal = k.ledger

VoteOnClaimUpTo(cap) ==
    \E c \in DOMAIN claims, voter \in Voters, approve \in BOOLEAN :
        /\ claims[c].approval_votes + claims[c].rejection_votes < cap
        /\ VoteOnClaimWith(c, voter, approve)

VoteOnClaimLong == VoteOnClaimUpTo(VoteCap)

\* A vote by the governance authority on a claim that can still take one.
AuthorizedVote ==
    \E c \in DOMAIN claims, approve \in BOOLEAN :
        /\ claims[c].approval_votes + claims[c].rejection_votes < VoteCap
        /\ VoteOnClaimWith(c, governance.authority, approve)

NextVoting == VoteOnClaimLong

SpecVoting == InitVoting /\ [][NextVoting]_vars /\ WF_vars(AuthorizedVote)

\* C20: with a fixed quorum q > 0, a claim that has received 2q - 1
\* authorised votes, whatever their mix, or q votes the same way, is no
\* longer Pending; so when the authority's votes keep being delivered, every
\* Pending claim eventually becomes Approved or Rejected.
C20_PendingResolves ==
    /\ [](\A c \in DOMAIN claims :
            LET q == governance.quorum
                claim == claims[c]
            IN /\ q > 0
               /\ claim.approval_votes + claim.rejection_votes >= 2 * q - 1 =>
                     claim.status \in Terminal
               /\ (claim.approval_votes >= q \/ claim.rejection_votes >= q) =>
                     claim.status \in Terminal)
    /\ (\E c \in DOMAIN claims : claims[c].status = "Pending")
          ~> (\A c \in DOMAIN claims : claims[c].status \in Terminal)

\* A claim that stayed Pending as long as it can: quorum two, resolved by
\* the third vote after one vote each way.
C20_Witness ==
    \E c \in DOMAIN claims :
        /\ governance.quorum > 1
        /\ claims[c].approval_votes + claims[c].rejection_votes
           = 2 * governance.quorum - 1
        /\ claims[c].approval_votes > 0
        /\ claims[c].rejection_votes > 0
        /\ claims[c].status \in Terminal

====
